---- MODULE Spec2Model ----
(***************************************************************************)
(* Model of the two Streamlit entry scripts of the Citi Bike dashboard:    *)
(*   st_dashboard.py         one page, run top to bottom                   *)
(*   st_dashboard_Part_2.py  six pages behind a sidebar selectbox, with    *)
(*                           two st.cache_data loaders                     *)
(* A state holds the input files, the st.cache_data memo of the two        *)
(* loaders and the outcome of the last script run.  One action is one run  *)
(* of a script (Streamlit reruns the whole script on every interaction).   *)
(*                                                                         *)
(* Data representation.                                                    *)
(*   DataFrame   [columns |-> set of column names, rows |-> sequence of    *)
(*               records with one field per column]                        *)
(*   started_at  <<month, hour>>, as CSV text and as parsed; NaT           *)
(*   date        CSV text <<month, day>>; parsed month*100+day, NaTDate    *)
(*   start_station_name  1, 2, ... ; NoName is the empty cell              *)
(*   member_casual       "member", "casual"; NoRider is the empty cell     *)
(*   bike_rides_daily, avgTemp   naturals; NaN is the empty cell           *)
(***************************************************************************)
EXTENDS Integers, Sequences, FiniteSets, TLC

\* ------------------------------------------------------------ bounds
MaxRows == 3
MaxWideRows == 23

\* ------------------------------------------------- program constants
TopN == 20

\* -------------------------------------------------------- null cells
NaT == <<0, 0>>
NaTDate == 0
NoName == 0
NoRider == "NaN"   \* also the missing value of any other column of strings
NaN == -1

NaValue(col) ==
    CASE col = "started_at" -> NaT
      [] col = "start_station_name" -> NoName
      [] col = "member_casual" -> NoRider
      [] col = "date" -> NaTDate
      [] col = "bike_rides_daily" -> NaN
      [] col = "avgTemp" -> NaN
      [] col = "month" -> NaN
      [] col = "hour" -> NaN
      [] col = "season" -> NoRider

\* ------------------------------------------------ pandas primitives
\* pd.to_datetime(..., errors="coerce") on one started_at cell: text that is
\* no timestamp (and the empty cell) becomes NaT; a timestamp stays as it is.
ToDatetime(cell) ==
    IF cell[1] \in 1..12 /\ cell[2] \in 0..23 THEN cell ELSE NaT

DaysInMonth(m) ==
    IF m = 2 THEN 28 ELSE IF m \in {4, 6, 9, 11} THEN 30 ELSE 31

\* Whether a date cell's text is a calendar date of 2022.
DateParses(cell) ==
    /\ cell[1] \in 1..12
    /\ cell[2] \in 1..DaysInMonth(cell[1])

\* The empty date cell (read_csv gives NaN, to_datetime gives NaT).
EmptyDate == <<0, 0>>

\* pd.to_datetime on one date cell, errors="coerce": a datetime64 value,
\* ordered as the calendar is.
ToDate(cell) ==
    IF DateParses(cell) THEN cell[1] * 100 + cell[2] ELSE NaTDate

RECURSIVE SelectRows(_, _)
\* The rows of a sequence whose index is in keep, in order.
SelectRows(rows, keep) ==
    IF rows = <<>> THEN <<>>
    ELSE LET n == Len(rows)
             front == SelectRows(SubSeq(rows, 1, n - 1), keep)
         IN  IF n \in keep THEN Append(front, rows[n]) ELSE front

\* df[mask]: the rows whose position is in keep, order kept.
KeepRows(df, keep) ==
    [columns |-> df.columns, rows |-> SelectRows(df.rows, keep)]

\* df.dropna(subset=cols)
Dropna(df, subset) ==
    KeepRows(df, {i \in 1..Len(df.rows) :
                    \A c \in subset : df.rows[i][c] # NaValue(c)})

\* df[col] = values: the column is added or overwritten.
WithColumn(df, col, values) ==
    [columns |-> df.columns \cup {col},
     rows |-> [i \in 1..Len(df.rows) |->
                 [c \in df.columns \cup {col} |->
                    IF c = col THEN values[i] ELSE df.rows[i][c]]]]

\* Isin taking the empty selection for no filter at all.
IsinEmptyMeansAll(df, col, selection) ==
    IF selection = {} THEN df
    ELSE KeepRows(df, {i \in 1..Len(df.rows) : df.rows[i][col] \in selection})

\* df[df[col].isin(selection)]
Isin(df, col, selection) ==
    KeepRows(df, {i \in 1..Len(df.rows) : df.rows[i][col] \in selection})

\* df.copy()
Copy(df) == df

\* series.dropna().unique() as a set
UniqueNonNull(df, col) ==
    {df.rows[i][col] : i \in 1..Len(df.rows)} \ {NaValue(col)}

\* The number of rows with a given value in a column.
CountOf(df, col, v) ==
    Cardinality({i \in 1..Len(df.rows) : df.rows[i][col] = v})

RECURSIVE SortedSeq(_)
\* The elements of a finite set of integers in ascending order.
SortedSeq(S) ==
    IF S = {} THEN <<>>
    ELSE LET m == CHOOSE x \in S : \A y \in S : x <= y
         IN  <<m>> \o SortedSeq(S \ {m})

\* df.groupby(col).size().reset_index(name=cnt): one row per distinct
\* non-null key, keys ascending (groupby sorts its keys and drops null keys).
GroupSize(df, col, cnt) ==
    LET keys == SortedSeq(UniqueNonNull(df, col))
    IN  [i \in 1..Len(keys) |->
           [c \in {col, cnt} |->
              IF c = col THEN keys[i] ELSE CountOf(df, col, keys[i])]]

SeqMax(rows, col) ==
    CHOOSE m \in {rows[i][col] : i \in 1..Len(rows)} :
        \A i \in 1..Len(rows) : rows[i][col] <= m

\* Idxmax taking the last occurrence of the maximum instead of the first.
IdxmaxLast(rows, col) ==
    LET mx == SeqMax(rows, col)
    IN  CHOOSE k \in 1..Len(rows) :
            /\ rows[k][col] = mx
            /\ \A j \in (k + 1)..Len(rows) : rows[j][col] # mx

\* series.idxmax() after reset_index: the position of the first occurrence
\* of the maximum (the frame must not be empty: pandas raises ValueError).
Idxmax(rows, col) ==
    LET mx == SeqMax(rows, col)
    IN  CHOOSE k \in 1..Len(rows) :
            /\ rows[k][col] = mx
            /\ \A j \in 1..(k - 1) : rows[j][col] # mx

RemoveAt(rows, k) ==
    SubSeq(rows, 1, k - 1) \o SubSeq(rows, k + 1, Len(rows))

\* SortValuesDesc leaving the rows in the order of the groups.
SortValuesKeepOrder(rows, col, stable) == rows

RECURSIVE SortValuesDesc(_, _, _)
\* rows.sort_values(col, ascending=False).  The default sort kind is not
\* stable, so rows with equal values may come out in either order: stable
\* says which of the two orders this run produced.
SortValuesDesc(rows, col, stable) ==
    IF rows = <<>> THEN <<>>
    ELSE LET mx == SeqMax(rows, col)
             ties == {i \in 1..Len(rows) : rows[i][col] = mx}
             k == IF stable
                  THEN CHOOSE i \in ties : \A j \in ties : i <= j
                  ELSE CHOOSE i \in ties : \A j \in ties : j <= i
         IN  <<rows[k]>> \o SortValuesDesc(RemoveAt(rows, k), col, stable)

\* rows.head(n)
Head_(rows, n) ==
    SubSeq(rows, 1, IF Len(rows) < n THEN Len(rows) ELSE n)

\* ------------------------------------------------------ input files
TripColumns == {"started_at", "start_station_name", "member_casual"}
WeatherColumns == {"date", "bike_rides_daily", "avgTemp"}
Seasons == {"Winter", "Spring", "Summer", "Autumn"}

Trip(ts, name, rider) ==
    [started_at |-> ts, start_station_name |-> name, member_casual |-> rider]

Day(date, rides, temp) ==
    [date |-> date, bike_rides_daily |-> rides, avgTemp |-> temp]

\* The rows a small trip file is made of: two stations, two hours, both rider
\* types and every season, and each way a row can be incomplete.
TripRowPool ==
    { Trip(<<1, 8>>, 1, "member"),
      Trip(<<7, 9>>, 2, "casual"),
      Trip(<<13, 8>>, 1, "member"),
      Trip(<<4, 9>>, NoName, "casual"),
      Trip(<<10, 8>>, 2, NoRider) }

\* The rows a small daily file is made of.
DayRowPool ==
    { Day(<<1, 1>>, 100, 5),
      Day(<<1, 3>>, 150, 6),
      Day(EmptyDate, 100, 5),
      Day(<<2, 30>>, 100, 5),
      Day(<<1, 1>>, NaN, 5),
      Day(<<1, 3>>, 150, NaN) }

SeqsUpTo(S, n) == UNION {[1..k -> S] : k \in 0..n}

\* A trip file of n rows over k stations, every month and three hours; the
\* wide files have one station more than the ranking keeps.
WideTripRows(n, k) ==
    [i \in 1..n |->
       Trip(<<1 + (i % 12), 7 + (i % 3)>>, 1 + (i % k),
            IF i % 2 = 0 THEN "member" ELSE "casual")]

WideTripFiles ==
    {WideTripRows(n, TopN + 1) : n \in (TopN + 1)..MaxWideRows}

DefaultBikeRows == <<Trip(<<1, 8>>, 1, "member"), Trip(<<7, 9>>, 1, "casual")>>
DefaultMergedRows == <<Day(<<1, 1>>, 100, 5), Day(<<1, 3>>, 150, 6)>>
DefaultTripRows == <<Trip(<<1, 8>>, 1, "member")>>

File(exists, rows) == [exists |-> exists, rows |-> rows]

FileSystem(bike, merged, trips, map) ==
    [bike_csv |-> bike, merged_csv |-> merged, trips_csv |-> trips,
     map_html |-> map]

\* The working directories the scripts are run in: the trip rows vary (the
\* two trip files holding the same rows), or the daily rows do, or any of the
\* four files is missing.
FileSystems ==
    {FileSystem(File(TRUE, r), File(TRUE, DefaultMergedRows), File(TRUE, r), TRUE) :
        r \in SeqsUpTo(TripRowPool, MaxRows) \cup WideTripFiles}
    \cup
    {FileSystem(File(TRUE, DefaultBikeRows), File(TRUE, r),
                File(TRUE, DefaultTripRows), TRUE) :
        r \in SeqsUpTo(DayRowPool, MaxRows)}
    \cup
    {FileSystem(File(b, DefaultBikeRows), File(m, DefaultMergedRows),
                File(t, DefaultTripRows), h) :
        b \in BOOLEAN, m \in BOOLEAN, t \in BOOLEAN, h \in BOOLEAN}

\* pd.read_csv of an existing file with a header line.
ReadCsv(file, columns) == [columns |-> columns, rows |-> file.rows]

\* -------------------------------------------------------- the loaders
\* load_bike_data of st_dashboard_Part_2.py
load_bike_data(file) ==
    LET df == ReadCsv(file, TripColumns)
        parsed == WithColumn(df, "started_at",
                     [i \in 1..Len(df.rows) |-> ToDatetime(df.rows[i].started_at)])
    IN  Dropna(parsed, {"started_at", "start_station_name"})

\* load_daily_weather_data of st_dashboard_Part_2.py
load_daily_weather_data(file) ==
    LET df == ReadCsv(file, WeatherColumns)
        parsed == WithColumn(df, "date",
                     [i \in 1..Len(df.rows) |-> ToDate(df.rows[i].date)])
    IN  Dropna(parsed, {"date", "bike_rides_daily", "avgTemp"})

\* ------------------------------------------------------ the pages
\* get_season cutting the year into calendar quarters.
get_season_by_quarter(m) ==
    IF m \in {1, 2, 3} THEN "Winter"
    ELSE IF m \in {4, 5, 6} THEN "Spring"
    ELSE IF m \in {7, 8, 9} THEN "Summer"
    ELSE "Autumn"

\* get_season of the "Most popular stations" page; the month of NaT is NaN,
\* which is in none of the three lists.
get_season(m) ==
    IF m \in {12, 1, 2} THEN "Winter"
    ELSE IF m \in {3, 4, 5} THEN "Spring"
    ELSE IF m \in {6, 7, 8} THEN "Summer"
    ELSE "Autumn"

\* series.dt.month of one started_at value (NaN, here 0, for NaT).
MonthOf(ts) == ts[1]

\* series.dt.hour of one started_at value.
HourOf(ts) == ts[2]

\* Lines 116-132: started_at parsed again, then the month and season columns
\* unless the frame already has a season column.
WithSeason(df) ==
    LET d1 == WithColumn(df, "started_at",
                 [i \in 1..Len(df.rows) |-> ToDatetime(df.rows[i].started_at)])
        d2 == WithColumn(d1, "month",
                 [i \in 1..Len(d1.rows) |-> MonthOf(d1.rows[i].started_at)])
    IN  IF "season" \in d1.columns
        THEN d1
        ELSE WithColumn(d2, "season",
                 [i \in 1..Len(d2.rows) |-> get_season(d2.rows[i].month)])

\* The options (and the default) of the season multiselect.
SeasonOptions(bike) == UniqueNonNull(WithSeason(Copy(bike)), "season")

\* df.dropna(subset=[start_station_name]).groupby(start_station_name).size()
\*   .reset_index(name=cnt).sort_values(cnt, ascending=False)
StationCounts(df, cnt, stable) ==
    SortValuesDesc(
        GroupSize(Dropna(df, {"start_station_name"}), "start_station_name", cnt),
        cnt, stable)

\* StationsPage with df1 = df_bike, no copy: the column assignments of lines
\* 116-132 land in the global frame.
StationsPageInPlace(bike, season_filter, stable) ==
    LET df1 == Isin(WithSeason(bike), "season", season_filter)
    IN  [df_bike |-> WithSeason(bike),
         df1 |-> df1,
         top20 |-> Head_(StationCounts(df1, "trips", stable), TopN)]

\* The "Most popular stations" page, lines 113-151, on the global df_bike:
\* the global as the page leaves it, the filtered working frame and top20.
StationsPage(bike, season_filter, stable) ==
    LET df1 == Isin(WithSeason(Copy(bike)), "season", season_filter)
    IN  [df_bike |-> bike,
         df1 |-> df1,
         top20 |-> Head_(StationCounts(df1, "trips", stable), TopN)]

\* The options (and the default) of the user type multiselect.
UserOptions(bike) == UniqueNonNull(bike, "member_casual")

\* The "Peak hours and demand" page, lines 229-243.  The groups of hourly
\* are in ascending hour order already, which sort_values("hour") keeps, so
\* the labels idxmax returns are positions.
PeakPage(bike, user_filter) ==
    LET sel == Copy(Isin(bike, "member_casual", user_filter))
        df2 == WithColumn(sel, "hour",
                  [i \in 1..Len(sel.rows) |-> HourOf(sel.rows[i].started_at)])
        hourly == GroupSize(df2, "hour", "trips")
    IN  [df_bike |-> bike,
         df2 |-> df2,
         hourly |-> hourly,
         exception |-> IF hourly = <<>> THEN "ValueError" ELSE "none",
         peak_row |-> IF hourly = <<>> THEN <<>>
                      ELSE <<hourly[Idxmax(hourly, "trips")]>>]

\* The "Recommendations" page, lines 273-281: index[0] of an empty index
\* raises IndexError.
RecommendationsPage(bike, stable) ==
    LET ranked == StationCounts(bike, "trips", stable)
    IN  [df_bike |-> bike,
         total_trips |-> Len(bike.rows),
         exception |-> IF ranked = <<>> THEN "IndexError" ELSE "none",
         top_station |-> IF ranked = <<>> THEN NoName
                         ELSE ranked[1].start_station_name]

\* The "Weather component and bike usage" page, lines 63-89: df_plot is a
\* copy whose date column, datetime64 already, to_datetime gives back as is;
\* both traces take the rows in the order of the frame.
WeatherPage(weather) ==
    LET df_plot == Copy(weather)
    IN  [df_weather |-> weather, df_plot |-> df_plot, series |-> df_plot.rows]

\* ------------------------------------------------------------ state
VARIABLES
    files,          \* the working directory: the three CSV files and the map
    cache_bike,     \* st.cache_data memo of load_bike_data (NoFrame: empty)
    cache_weather,  \* st.cache_data memo of load_daily_weather_data
    df_bike,        \* the global df_bike at the end of the last Part 2 run
    df_weather,     \* the global df_weather at the end of the last Part 2 run
    work,           \* the working frame of the last run: df1, df2 or df_plot
    view            \* what the last script run put on the page

vars == <<files, cache_bike, cache_weather, df_bike, df_weather, work, view>>

\* No frame: an empty memo, a global the run never bound.
NoFrame == [columns |-> {}, rows |-> <<>>]

Pages ==
    {"Intro page", "Weather component and bike usage", "Most popular stations",
     "Interactive map with aggregated bike trips", "Recommendations",
     "Peak hours and demand"}

\* The page of a run before anything is drawn.
BlankView(script, page) ==
    [script |-> script, page |-> page, exception |-> "none",
     error_box |-> FALSE, rendered |-> {},
     season_filter |-> {}, user_filter |-> {},
     top20 |-> <<>>, hourly |-> <<>>, peak_row |-> <<>>,
     total_trips |-> 0, top_station |-> NoName, series |-> <<>>]

Init ==
    /\ files \in FileSystems
    /\ cache_bike = NoFrame
    /\ cache_weather = NoFrame
    /\ df_bike = NoFrame
    /\ df_weather = NoFrame
    /\ work = NoFrame
    /\ view = BlankView("none", "none")

\* ---------------------------------- st_dashboard_Part_2.py, lines 29-45
\* A cached loader reads its file on the first call only and hands out a
\* copy of the memo afterwards.
BikeLoads == IF cache_bike # NoFrame THEN TRUE ELSE files.bike_csv.exists
WeatherLoads ==
    IF cache_weather # NoFrame THEN TRUE ELSE files.merged_csv.exists

BikeMemo ==
    IF cache_bike # NoFrame THEN cache_bike ELSE load_bike_data(files.bike_csv)
WeatherMemo ==
    IF cache_weather # NoFrame THEN cache_weather
    ELSE load_daily_weather_data(files.merged_csv)

\* Lines 36 and 45 when both loaders return.
Loaded ==
    /\ BikeLoads /\ WeatherLoads
    /\ cache_bike' = BikeMemo
    /\ cache_weather' = WeatherMemo
    /\ files' = files

\* A run that ends at line 36 or at line 45: pd.read_csv raises
\* FileNotFoundError, nothing catches it, no page is drawn.
LoadFails(page) ==
    /\ ~(BikeLoads /\ WeatherLoads)
    /\ cache_bike' = IF BikeLoads THEN BikeMemo ELSE cache_bike
    /\ df_bike' = IF BikeLoads THEN Copy(BikeMemo) ELSE NoFrame
    /\ df_weather' = NoFrame
    /\ work' = NoFrame
    /\ view' = [BlankView("part2", page) EXCEPT !.exception = "FileNotFoundError"]
    /\ UNCHANGED <<files, cache_weather>>

\* ------------------------------------------------------- the six pages
IntroPage ==
    /\ Loaded
    /\ df_bike' = Copy(BikeMemo)
    /\ df_weather' = Copy(WeatherMemo)
    /\ work' = NoFrame
    /\ view' = [BlankView("part2", "Intro page") EXCEPT
                  !.rendered = {"Intro page"}]

WeatherComponentPage ==
    /\ Loaded
    /\ LET r == WeatherPage(Copy(WeatherMemo))
       IN  /\ df_weather' = r.df_weather
           /\ work' = r.df_plot
           /\ view' = [BlankView("part2", "Weather component and bike usage")
                         EXCEPT !.rendered = {"Weather component and bike usage"},
                                !.series = r.series]
    /\ df_bike' = Copy(BikeMemo)

MostPopularStationsPage(season_filter, stable) ==
    /\ Loaded
    /\ season_filter \subseteq SeasonOptions(Copy(BikeMemo))
    /\ LET r == StationsPage(Copy(BikeMemo), season_filter, stable)
       IN  /\ df_bike' = r.df_bike
           /\ work' = r.df1
           /\ view' = [BlankView("part2", "Most popular stations") EXCEPT
                         !.rendered = {"Most popular stations"},
                         !.season_filter = season_filter,
                         !.top20 = r.top20]
    /\ df_weather' = Copy(WeatherMemo)

\* Lines 189-219: the missing map file is caught and shown by st.error.
InteractiveMapPage ==
    /\ Loaded
    /\ df_bike' = Copy(BikeMemo)
    /\ df_weather' = Copy(WeatherMemo)
    /\ work' = NoFrame
    /\ view' = [BlankView("part2", "Interactive map with aggregated bike trips")
                  EXCEPT !.rendered =
                             IF files.map_html
                             THEN {"Interactive map with aggregated bike trips"}
                             ELSE {},
                         !.error_box = ~files.map_html]

PeakHoursPage(user_filter) ==
    /\ Loaded
    /\ user_filter \subseteq UserOptions(Copy(BikeMemo))
    /\ LET r == PeakPage(Copy(BikeMemo), user_filter)
       IN  /\ df_bike' = r.df_bike
           /\ work' = r.df2
           /\ view' = [BlankView("part2", "Peak hours and demand") EXCEPT
                         !.exception = r.exception,
                         !.rendered = IF r.exception = "none"
                                      THEN {"Peak hours and demand"} ELSE {},
                         !.user_filter = user_filter,
                         !.hourly = r.hourly,
                         !.peak_row = r.peak_row]
    /\ df_weather' = Copy(WeatherMemo)

RecommendationsRun(stable) ==
    /\ Loaded
    /\ LET r == RecommendationsPage(Copy(BikeMemo), stable)
       IN  /\ df_bike' = r.df_bike
           /\ work' = NoFrame
           /\ view' = [BlankView("part2", "Recommendations") EXCEPT
                         !.exception = r.exception,
                         !.rendered = IF r.exception = "none"
                                      THEN {"Recommendations"} ELSE {},
                         !.total_trips = IF r.exception = "none"
                                         THEN r.total_trips ELSE 0,
                         !.top_station = r.top_station]
    /\ df_weather' = Copy(WeatherMemo)

\* ------------------------------------------------------ st_dashboard.py
\* pd.to_datetime with the default errors="raise": text that is no date
\* raises, the empty cell becomes NaT.
DateRaises(cell) == cell # EmptyDate /\ ~DateParses(cell)

\* One run of st_dashboard.py on a working directory: what it leaves on the
\* page.  Lines 24 and 28 raise FileNotFoundError, line 25 ValueError, and
\* only the map's open() is inside a try.
st_dashboard(fs, stable) ==
    LET blank == BlankView("dashboard", "NYC Citi Bike Strategy Dashboard")
        raw == ReadCsv(fs.merged_csv, WeatherColumns)
        df_daily == WithColumn(raw, "date",
                       [i \in 1..Len(raw.rows) |-> ToDate(raw.rows[i].date)])
        df_trips == Dropna(ReadCsv(fs.trips_csv, TripColumns),
                           {"start_station_name"})
    IN  IF ~fs.merged_csv.exists
        THEN [blank EXCEPT !.exception = "FileNotFoundError"]
        ELSE IF \E i \in 1..Len(raw.rows) : DateRaises(raw.rows[i].date)
        THEN [blank EXCEPT !.exception = "ValueError"]
        ELSE IF ~fs.trips_csv.exists
        THEN [blank EXCEPT !.exception = "FileNotFoundError"]
        ELSE [blank EXCEPT
                !.top20 = Head_(StationCounts(df_trips, "value", stable), TopN),
                !.series = df_daily.rows,
                !.error_box = ~fs.map_html,
                !.rendered = {"Top 20", "Daily"} \cup
                             (IF fs.map_html THEN {"Map"} ELSE {})]

DashboardRun(stable) ==
    /\ view' = st_dashboard(files, stable)
    /\ work' = NoFrame
    /\ UNCHANGED <<files, cache_bike, cache_weather, df_bike, df_weather>>

Next ==
    \/ \E page \in Pages : LoadFails(page)
    \/ IntroPage
    \/ WeatherComponentPage
    \/ \E sel \in SUBSET Seasons, stable \in BOOLEAN :
           MostPopularStationsPage(sel, stable)
    \/ InteractiveMapPage
    \/ \E sel \in SUBSET {"member", "casual"} : PeakHoursPage(sel)
    \/ \E stable \in BOOLEAN : RecommendationsRun(stable)
    \/ \E stable \in BOOLEAN : DashboardRun(stable)

Spec == Init /\ [][Next]_vars

\* ------------------------------------------------------------ claims
StationsRendered == "Most popular stations" \in view.rendered
PeakRequested == view.script = "part2" /\ view.page = "Peak hours and demand"
SummaryRequested == view.script = "part2" /\ view.page = "Recommendations"

\* The number of rows of a sequence with a given station name.
RowsAt(rows, name) ==
    Cardinality({i \in 1..Len(rows) : rows[i].start_station_name = name})

\* The station names of a sequence of rows.
NamesIn(rows) ==
    {rows[i].start_station_name : i \in 1..Len(rows)} \ {NoName}

\* C1: the summary of an empty trip table is total_count = 0 and no top
\* station, and the "Recommendations" page raises nothing.
C1_EmptySummary ==
    (SummaryRequested /\ df_bike.rows = <<>>) =>
        /\ view.exception = "none"
        /\ view.total_trips = 0
        /\ view.top_station = NoName

\* C2: a filter selection that yields zero rows renders an empty state and
\* raises nothing, on the "Peak hours and demand" page and on the "Most
\* popular stations" page.
C2_EmptySelectionRenders ==
    /\ (PeakRequested /\ df_bike.rows # <<>> /\ work.rows = <<>>) =>
           /\ view.exception = "none"
           /\ view.peak_row = <<>>
    /\ (view.script = "part2" /\ view.page = "Most popular stations"
          /\ df_bike.rows # <<>> /\ work.rows = <<>>) =>
           /\ view.exception = "none"
           /\ view.top20 = <<>>

\* The table a rendered ranking was computed from: the trip file's rows for
\* st_dashboard.py, the loaded rows of the selected seasons for Part 2.
RankedTable ==
    IF view.script = "dashboard"
    THEN files.trips_csv.rows
    ELSE SelectRows(df_bike.rows,
             {i \in 1..Len(df_bike.rows) :
                 get_season(MonthOf(df_bike.rows[i].started_at))
                     \in view.season_filter})

RankingShown == StationsRendered \/ "Top 20" \in view.rendered

\* The count of a ranking entry (the column is "value" in st_dashboard.py
\* and "trips" in Part 2).
EntryCount(e) == IF view.script = "dashboard" THEN e.value ELSE e.trips

\* C3: a rendered top-20 ranking has at most 20 entries and at most one per
\* station name of its table, each entry's count is the number of rows with
\* that station name, and the counts never increase down the ranking.
C3_TopN ==
    RankingShown =>
        LET r == view.top20
            T == RankedTable
        IN  /\ Len(r) <= TopN
            /\ Len(r) <= Cardinality(NamesIn(T))
            /\ \A i \in 1..Len(r) :
                   /\ r[i].start_station_name \in NamesIn(T)
                   /\ EntryCount(r[i]) = RowsAt(T, r[i].start_station_name)
            /\ \A i \in 1..Len(r), j \in 1..Len(r) :
                   i < j => /\ EntryCount(r[i]) >= EntryCount(r[j])
                            /\ r[i].start_station_name # r[j].start_station_name

\* C3 witness: a table of more than 20 stations, cut to 20 entries with the
\* larger counts first.
C3_Witness ==
    /\ StationsRendered
    /\ Cardinality(NamesIn(RankedTable)) > TopN
    /\ Len(view.top20) = TopN
    /\ view.top20[1].trips > view.top20[TopN].trips

\* The rows the hourly distribution was computed from: the loaded rows of
\* the selected rider types.
PeakTable ==
    SelectRows(df_bike.rows,
        {i \in 1..Len(df_bike.rows) :
            df_bike.rows[i].member_casual \in view.user_filter})

\* The number of rows of a sequence that start in a given hour.
RowsInHour(rows, h) ==
    Cardinality({i \in 1..Len(rows) : rows[i].started_at[2] = h})

\* C4: the reported peak is an hour of the filtered table with its trip
\* count, no hour of the table has more trips, and every other hour with as
\* many trips is a later hour.
C4_Peak ==
    (PeakRequested /\ view.exception = "none") =>
        /\ Len(view.peak_row) = 1
        /\ LET p == view.peak_row[1]
               T == PeakTable
           IN  /\ \E i \in 1..Len(T) : T[i].started_at[2] = p.hour
               /\ p.trips = RowsInHour(T, p.hour)
               /\ \A i \in 1..Len(T) :
                      LET h == T[i].started_at[2]
                      IN  /\ RowsInHour(T, h) <= p.trips
                          /\ RowsInHour(T, h) = p.trips => p.hour <= h

\* C4 witness: two hours share the maximum and the peak is reported.
C4_Witness ==
    /\ PeakRequested
    /\ view.exception = "none"
    /\ Len(view.peak_row) = 1
    /\ \E i \in 1..Len(view.hourly) :
           /\ view.hourly[i].hour # view.peak_row[1].hour
           /\ view.hourly[i].trips = view.peak_row[1].trips

\* The season of a calendar month, as the data model states it.
SeasonOfMonth(m) ==
    CASE m \in {12, 1, 2} -> "Winter"
      [] m \in {3, 4, 5} -> "Spring"
      [] m \in {6, 7, 8} -> "Summer"
      [] m \in {9, 10, 11} -> "Autumn"

\* A row of a frame without its derived columns.
BaseRow(r) == [c \in TripColumns |-> r[c]]

C5_AllSeasonsReached ==
    /\ StationsRendered
    /\ view.season_filter = Seasons
    /\ work.rows # <<>>

DayValid(r) ==
    /\ DateParses(r.date)
    /\ r.bike_rides_daily # NaN
    /\ r.avgTemp # NaN

SeriesShown ==
    \/ "Weather component and bike usage" \in view.rendered
    \/ "Daily" \in view.rendered

\* C6: the daily series of a rendered weather chart is ascending by date
\* and holds exactly the valid rows of the daily file.
C6_DailySeries ==
    SeriesShown =>
        LET s == view.series
            f == files.merged_csv.rows
        IN  /\ \A i \in 1..Len(s), j \in 1..Len(s) :
                   i < j => s[i].date <= s[j].date
            /\ \A i \in 1..Len(s) :
                   /\ s[i].date # NaTDate
                   /\ s[i].bike_rides_daily # NaN
                   /\ s[i].avgTemp # NaN
            /\ Len(s) = Cardinality({i \in 1..Len(f) : DayValid(f[i])})

\* Whether a row of a trip file has a parseable start timestamp and a start
\* station name.
TripValid(r) ==
    /\ ToDatetime(r.started_at) # NaT
    /\ r.start_station_name # NoName

\* The number of valid rows of a sequence with a given station name.
ValidRowsAt(rows, name) ==
    Cardinality({i \in 1..Len(rows) :
                    TripValid(rows[i]) /\ rows[i].start_station_name = name})

\* C7: no aggregation of either script counts a trip row without a
\* parseable start timestamp or without a start station name, and load
\* keeps every row of a file whose rows all have both.
C7_InvalidRowsExcluded ==
    /\ "Top 20" \in view.rendered =>
           \A i \in 1..Len(view.top20) :
               view.top20[i].value
                   <= ValidRowsAt(files.trips_csv.rows,
                                  view.top20[i].start_station_name)
    /\ StationsRendered =>
           \A i \in 1..Len(view.top20) :
               view.top20[i].trips
                   <= ValidRowsAt(files.bike_csv.rows,
                                  view.top20[i].start_station_name)
    /\ (PeakRequested /\ view.exception = "none") =>
           \A i \in 1..Len(view.hourly) :
               view.hourly[i].trips
                   <= Cardinality({k \in 1..Len(files.bike_csv.rows) :
                          /\ TripValid(files.bike_csv.rows[k])
                          /\ files.bike_csv.rows[k].started_at[2]
                                 = view.hourly[i].hour})
    /\ "Recommendations" \in view.rendered =>
           view.total_trips
               = Cardinality({k \in 1..Len(files.bike_csv.rows) :
                                 TripValid(files.bike_csv.rows[k])})
    /\ (view.script = "part2" /\ view.exception # "FileNotFoundError"
          /\ \A k \in 1..Len(files.bike_csv.rows) :
                 TripValid(files.bike_csv.rows[k])) =>
           df_bike.rows = files.bike_csv.rows

\* The input files a page of Part 2 reads.
PageReads(page) ==
    CASE page \in {"Intro page", "Interactive map with aggregated bike trips"}
             -> {}
      [] page = "Weather component and bike usage" -> {"merged_csv"}
      [] OTHER -> {"bike_csv"}

\* C8: a missing input file is not fatal to the views that do not read it,
\* and the missing map is shown as a warning.
C8_MissingFileNotFatal ==
    /\ (view.script = "part2"
          /\ \A f \in PageReads(view.page) : files[f].exists) =>
           view.exception # "FileNotFoundError"
    /\ (view.script = "dashboard" /\ files.merged_csv.exists
          /\ view.exception # "ValueError") =>
           "Daily" \in view.rendered
    /\ (view.script = "dashboard" /\ files.trips_csv.exists) =>
           "Top 20" \in view.rendered \/ view.exception = "ValueError"
    /\ (view.page = "Interactive map with aggregated bike trips"
          /\ view.exception = "none" /\ ~files.map_html) =>
           view.error_box

\* C10: after any run of Part 2 that got past the loaders, the two memoized
\* tables and the two globals are the tables load made of the files, and the
\* ranking on the page is the ranking of those tables under the run's own
\* selection.
C10_BaseTablesUntouched ==
    /\ cache_bike # NoFrame => cache_bike = load_bike_data(files.bike_csv)
    /\ cache_weather # NoFrame =>
           cache_weather = load_daily_weather_data(files.merged_csv)
    /\ (view.script = "part2" /\ view.exception # "FileNotFoundError") =>
           /\ df_bike = load_bike_data(files.bike_csv)
           /\ df_weather = load_daily_weather_data(files.merged_csv)
    /\ StationsRendered =>
           \E stable \in BOOLEAN :
               view.top20 = Head_(StationCounts(
                                Isin(WithSeason(load_bike_data(files.bike_csv)),
                                     "season", view.season_filter),
                                "trips", stable), TopN)

\* C10 witness: a page that filtered rows away and added columns to its
\* working frame, the table of three columns still whole.
C10_Witness ==
    /\ StationsRendered
    /\ cache_bike # NoFrame
    /\ df_bike.rows # <<>>
    /\ Len(work.rows) < Len(df_bike.rows)
    /\ "season" \in work.columns
    /\ df_bike.columns = TripColumns

====
